---- MODULE Spec2Model ----
(***************************************************************************)
(* Zonage_PNA.py: a Streamlit script.  Every interaction reruns the script *)
(* from the top: the uploaded files are parsed and classified into         *)
(* all_data_sources, then, if a verification button was pressed, one query *)
(* is_in_pna(lat, lon, x_l93, y_l93, all_data_sources) is evaluated.       *)
(*                                                                         *)
(* Representation.  A Python string is a TLA+ string; Spell gives its      *)
(* characters, so that `in` and lower() are computed on characters.  A     *)
(* Python dict that keeps insertion order (all_data_sources) is a sequence *)
(* of entries with pairwise distinct keys.  A feature's properties dict is *)
(* a function from keys to values.  Geometries are axis-parallel           *)
(* rectangles on the integer grid of the projected plane (metres).         *)
(* file_types and the st.session_state fields are written and never read   *)
(* by the parts modelled here; they are left out.                          *)
(***************************************************************************)
EXTENDS Integers, Sequences, FiniteSets, TLC

VARIABLES pna_type, uploaded_files, idx, all_data_sources, messages,
          pc, called, point, in_pna, results, outcome, check, address

vars == <<pna_type, uploaded_files, idx, all_data_sources, messages,
          pc, called, point, in_pna, results, outcome, check, address>>

(***************************************************************************)
(* Bounds of the model.                                                    *)
(***************************************************************************)
\* Largest number of files uploaded together in one run of the script.
MaxFiles == 2

(***************************************************************************)
(* Program constants.                                                      *)
(***************************************************************************)
\* point_l93.buffer(1): radius of the tolerance buffer, in metres.
BufferRadius == 1
\* data['features'][:10]: number of features the content heuristic reads.
ContentScanLimit == 10

AUTO == "Détection automatique"
CHIRO == "Chiroptères"
ODONATES == "Odonates"
PG_GRISE == "Pie-grièche grise"
PG_MERID == "Pie-grièche méridionale"
PG_ROUSSE == "Pie-grièche à tête rousse"
UNDETECTED == "Type non détecté"
UNKNOWN == "Type inconnu"

\* The options of the selectbox "Sélectionner un type de PNA".
PnaTypeOptions == {AUTO, CHIRO, ODONATES, PG_GRISE, PG_MERID, PG_ROUSSE}

\* file_uploader(type=["geojson", "json"]) and the test of line 188.
AllowedExtensions == {"geojson", "json"}

(***************************************************************************)
(* Strings as characters.                                                  *)
(***************************************************************************)
\* The characters of each string the model uses.
Spell(s) ==
    CASE s = "chiroptere_zones.geojson" -> <<"c", "h", "i", "r", "o", "p", "t", "e", "r", "e", "_", "z", "o", "n", "e", "s", ".", "g", "e", "o", "j", "s", "o", "n">>
      [] s = "Chauve.json" -> <<"C", "h", "a", "u", "v", "e", ".", "j", "s", "o", "n">>
      [] s = "odonat.json" -> <<"o", "d", "o", "n", "a", "t", ".", "j", "s", "o", "n">>
      [] s = "libellule.json" -> <<"l", "i", "b", "e", "l", "l", "u", "l", "e", ".", "j", "s", "o", "n">>
      [] s = "griseche.json" -> <<"g", "r", "i", "s", "e", "c", "h", "e", ".", "j", "s", "o", "n">>
      [] s = "griseche_merid.json" -> <<"g", "r", "i", "s", "e", "c", "h", "e", "_", "m", "e", "r", "i", "d", ".", "j", "s", "o", "n">>
      [] s = "griseche_rousse.json" -> <<"g", "r", "i", "s", "e", "c", "h", "e", "_", "r", "o", "u", "s", "s", "e", ".", "j", "s", "o", "n">>
      [] s = "tete rousse.json" -> <<"t", "e", "t", "e", " ", "r", "o", "u", "s", "s", "e", ".", "j", "s", "o", "n">>
      [] s = "grise.json" -> <<"g", "r", "i", "s", "e", ".", "j", "s", "o", "n">>
      [] s = "zones.geojson" -> <<"z", "o", "n", "e", "s", ".", "g", "e", "o", "j", "s", "o", "n">>
      [] s = "b.geojson" -> <<"b", ".", "g", "e", "o", "j", "s", "o", "n">>
      [] s = "Petit rhinolophe" -> <<"P", "e", "t", "i", "t", " ", "r", "h", "i", "n", "o", "l", "o", "p", "h", "e">>
      [] s = "Chauve-souris" -> <<"C", "h", "a", "u", "v", "e", "-", "s", "o", "u", "r", "i", "s">>
      [] s = "Libellule" -> <<"L", "i", "b", "e", "l", "l", "u", "l", "e">>
      [] s = "Pie-grièche grise" -> <<"P", "i", "e", "-", "g", "r", "i", "è", "c", "h", "e", " ", "g", "r", "i", "s", "e">>
      [] s = "Pie-grieche meridionale" -> <<"P", "i", "e", "-", "g", "r", "i", "e", "c", "h", "e", " ", "m", "e", "r", "i", "d", "i", "o", "n", "a", "l", "e">>
      [] s = "Pie-grièche à tête rousse" -> <<"P", "i", "e", "-", "g", "r", "i", "è", "c", "h", "e", " ", "à", " ", "t", "ê", "t", "e", " ", "r", "o", "u", "s", "s", "e">>
      [] s = "Odonate" -> <<"O", "d", "o", "n", "a", "t", "e">>
      [] s = "chiroptere" -> <<"c", "h", "i", "r", "o", "p", "t", "e", "r", "e">>
      [] s = "chiroptère" -> <<"c", "h", "i", "r", "o", "p", "t", "è", "r", "e">>
      [] s = "chauve" -> <<"c", "h", "a", "u", "v", "e">>
      [] s = "odonat" -> <<"o", "d", "o", "n", "a", "t">>
      [] s = "odonates" -> <<"o", "d", "o", "n", "a", "t", "e", "s">>
      [] s = "libellule" -> <<"l", "i", "b", "e", "l", "l", "u", "l", "e">>
      [] s = "griseche" -> <<"g", "r", "i", "s", "e", "c", "h", "e">>
      [] s = "grièche" -> <<"g", "r", "i", "è", "c", "h", "e">>
      [] s = "grieche" -> <<"g", "r", "i", "e", "c", "h", "e">>
      [] s = "grise" -> <<"g", "r", "i", "s", "e">>
      [] s = "merid" -> <<"m", "e", "r", "i", "d">>
      [] s = "mérid" -> <<"m", "é", "r", "i", "d">>
      [] s = "rousse" -> <<"r", "o", "u", "s", "s", "e">>
      [] s = "tete rousse" -> <<"t", "e", "t", "e", " ", "r", "o", "u", "s", "s", "e">>
      [] s = "tête rousse" -> <<"t", "ê", "t", "e", " ", "r", "o", "u", "s", "s", "e">>
      [] s = "tete" -> <<"t", "e", "t", "e">>
      [] s = "tête" -> <<"t", "ê", "t", "e">>
      [] s = "geojson" -> <<"g", "e", "o", "j", "s", "o", "n">>
      [] s = "json" -> <<"j", "s", "o", "n">>

UpperLetters == <<"A", "B", "C", "D", "E", "F", "G", "H", "I", "J", "K", "L", "M",
                  "N", "O", "P", "Q", "R", "S", "T", "U", "V", "W", "X", "Y", "Z",
                  "À", "È", "É", "Ê">>
LowerLetters == <<"a", "b", "c", "d", "e", "f", "g", "h", "i", "j", "k", "l", "m",
                  "n", "o", "p", "q", "r", "s", "t", "u", "v", "w", "x", "y", "z",
                  "à", "è", "é", "ê">>

\* str.lower() on one character.
LowerChar(c) ==
    IF \E i \in DOMAIN UpperLetters : UpperLetters[i] = c
    THEN LowerLetters[CHOOSE i \in DOMAIN UpperLetters : UpperLetters[i] = c]
    ELSE c

\* str.lower()
Lower(cs) == [i \in DOMAIN cs |-> LowerChar(cs[i])]

\* Python's `kw in text` on strings: kw occurs as a contiguous substring.
Contains(text, kw) ==
    \E i \in 1..(Len(text) - Len(kw) + 1) : SubSeq(text, i, i + Len(kw) - 1) = kw

\* `"kw" in s` for a keyword literal of the source and an already lowered text.
Has(text, kw) == Contains(text, Spell(kw))

\* uploaded_file.name.split('.')[-1].lower(): the text after the last dot.
LastDot(cs) ==
    IF \E i \in DOMAIN cs : cs[i] = "."
    THEN CHOOSE i \in DOMAIN cs : cs[i] = "." /\ \A j \in DOMAIN cs : cs[j] = "." => j <= i
    ELSE 0

FileExtension(name) ==
    LET cs == Spell(name) IN Lower(SubSeq(cs, LastDot(cs) + 1, Len(cs)))

(***************************************************************************)
(* Classification of an uploaded file (the loop body of lines 162-240).    *)
(*                                                                         *)
(* A parsed document is a record                                           *)
(*   [parses, hasType, hasFeatures, featuresIsList, features]              *)
(* parses: json.load succeeds; hasType / hasFeatures: the top-level keys   *)
(* are present; featuresIsList: data['features'] is a JSON array (when     *)
(* FALSE it is null or a number: it cannot be sliced, sized or iterated).  *)
(* A feature is [geometry, hasProps, propsIsMap, properties]:              *)
(* hasProps: the key 'properties' is present; propsIsMap: its value is a   *)
(* JSON object (when FALSE it is null, as GeoJSON allows).                 *)
(***************************************************************************)

\* Lines 173-182: detection by the file name.
FilenameType(file_name) ==
    LET n == Lower(Spell(file_name)) IN
    IF Has(n, "chiroptere") \/ Has(n, "chauve") THEN CHIRO
    ELSE IF Has(n, "odonat") \/ Has(n, "libellule") THEN ODONATES
    ELSE IF Has(n, "griseche") /\ Has(n, "grise") THEN PG_GRISE
    ELSE IF Has(n, "griseche") /\ Has(n, "merid") THEN PG_MERID
    ELSE IF (Has(n, "griseche") /\ Has(n, "rousse")) \/ Has(n, "tete rousse") THEN PG_ROUSSE
    ELSE UNDETECTED

\* Lines 202-218: detection by one value of n_espece.  UNDETECTED: no rule
\* matched (no break, the loop goes on to the next feature).
EspeceType(value) ==
    LET espece == Lower(Spell(value)) IN
    IF Has(espece, "chauve") \/ Has(espece, "chiroptère") \/ Has(espece, "chiroptere")
    THEN CHIRO
    ELSE IF Has(espece, "odonates") \/ Has(espece, "libellule") THEN ODONATES
    ELSE IF Has(espece, "grièche") \/ Has(espece, "grieche")
    THEN IF Has(espece, "grise") /\ ~Has(espece, "tête") /\ ~Has(espece, "tete")
         THEN PG_GRISE
         ELSE IF Has(espece, "mérid") \/ Has(espece, "merid") THEN PG_MERID
         ELSE IF Has(espece, "tête rousse") \/ Has(espece, "tete rousse") THEN PG_ROUSSE
         ELSE UNDETECTED
    ELSE UNDETECTED

Min(a, b) == IF a <= b THEN a ELSE b

\* A mutant of ScanContent: the loop reads every feature (no [:10]).
RECURSIVE ScanContentAll(_, _)
ScanContentAll(features, i) ==
    IF i > Len(features)
    THEN [raised |-> FALSE, type |-> UNDETECTED]
    ELSE LET feature == features[i] IN
         IF ~feature.hasProps THEN ScanContentAll(features, i + 1)
         ELSE IF ~feature.propsIsMap THEN [raised |-> TRUE, type |-> UNDETECTED]
         ELSE IF "n_espece" \in DOMAIN feature.properties
              THEN LET t == EspeceType(feature.properties["n_espece"]) IN
                   IF t # UNDETECTED THEN [raised |-> FALSE, type |-> t]
                   ELSE ScanContentAll(features, i + 1)
              ELSE ScanContentAll(features, i + 1)

\* Lines 196-218: the loop over data['features'][:10], from position i on.
\* raised: `'n_espece' in props` on a null properties value raises TypeError.
RECURSIVE ScanContent(_, _)
ScanContent(features, i) ==
    IF i > Min(Len(features), ContentScanLimit)
    THEN [raised |-> FALSE, type |-> UNDETECTED]
    ELSE LET feature == features[i] IN
         IF ~feature.hasProps THEN ScanContent(features, i + 1)
         ELSE IF ~feature.propsIsMap THEN [raised |-> TRUE, type |-> UNDETECTED]
         ELSE IF "n_espece" \in DOMAIN feature.properties
              THEN LET t == EspeceType(feature.properties["n_espece"]) IN
                   IF t # UNDETECTED THEN [raised |-> FALSE, type |-> t]
                   ELSE ScanContent(features, i + 1)
              ELSE ScanContent(features, i + 1)

\* A mutant of NeedsContentScan: the content is read whatever the file name gave.
NeedsContentScanAlways(pna, detected_type) == pna = AUTO

\* Line 194: the content heuristic runs only in automatic mode when the
\* file name detected nothing.
NeedsContentScan(pna, detected_type) == pna = AUTO /\ detected_type = UNDETECTED

NotStored(text) == [stored |-> FALSE, type |-> UNDETECTED, level |-> "error", text |-> text]

\* Lines 163-240: what one iteration of the loading loop does with a file:
\* stored: all_data_sources[file_name] is assigned (line 229), with which type;
\* level/text: the message shown (st.success line 236, st.error lines 238, 240;
\* "none" when the extension test of line 188 fails, which shows nothing).
LoadOutcome(file, pna) ==
    LET data == file.doc
        detected0 == IF pna = AUTO THEN FilenameType(file.name) ELSE UNDETECTED
        current0 == IF pna = AUTO THEN detected0 ELSE pna
        scan == NeedsContentScan(pna, detected0)
    IN
    IF FileExtension(file.name) \notin {Spell(e) : e \in AllowedExtensions}
    THEN [stored |-> FALSE, type |-> UNDETECTED, level |-> "none", text |-> "none"]
    ELSE IF ~data.parses THEN NotStored("load_exception")          \* json.load raises
    ELSE IF ~(data.hasType /\ data.hasFeatures) THEN NotStored("invalid_geojson")
    ELSE IF scan /\ ~data.featuresIsList THEN NotStored("load_exception")  \* [:10] raises
    ELSE LET sc == IF scan THEN ScanContent(data.features, 1)
                   ELSE [raised |-> FALSE, type |-> UNDETECTED]
             current1 == IF scan /\ sc.type # UNDETECTED THEN sc.type ELSE current0
             current2 == IF current1 = UNDETECTED THEN UNKNOWN ELSE current1
         IN
         IF sc.raised THEN NotStored("load_exception")
         ELSE IF data.featuresIsList
              THEN [stored |-> TRUE, type |-> current2, level |-> "success", text |-> "loaded"]
              \* stored at line 229, then len(data['features']) raises at line 236
              ELSE [stored |-> TRUE, type |-> current2, level |-> "error",
                    text |-> "load_exception"]

\* all_data_sources[file_name] = {...}: a new key is appended, an existing
\* key keeps its place and gets the new value.
DictPut(sources, entry) ==
    IF \E i \in DOMAIN sources : sources[i].name = entry.name
    THEN [i \in DOMAIN sources |->
            IF sources[i].name = entry.name THEN entry ELSE sources[i]]
    ELSE Append(sources, entry)

(***************************************************************************)
(* The query is_in_pna (lines 84-128).                                     *)
(***************************************************************************)
\* properties[key] = value
DictSet(properties, key, value) ==
    [k \in DOMAIN properties \cup {key} |-> IF k = key THEN value ELSE properties[k]]

\* properties.get(key, default)
DictGet(properties, key, default) ==
    IF key \in DOMAIN properties THEN properties[key] ELSE default

\* pna_shape.contains(point_l93): the point lies in the interior of the shape.
ShapeContains(geometry, p) ==
    /\ geometry.xmin < p.x /\ p.x < geometry.xmax
    /\ geometry.ymin < p.y /\ p.y < geometry.ymax

\* Distance from the point to the (closed) shape along one axis.
AxisGap(lo, hi, v) == IF v < lo THEN lo - v ELSE IF v > hi THEN v - hi ELSE 0

\* pna_shape.intersects(point_l93.buffer(1)): some point of the closed shape is
\* within the buffer radius of the point (squared distances, on the grid; a
\* grid point at distance exactly 1 lies along an axis, where the buffer
\* polygon has a vertex, so the shapes touch and intersects() is true).
ShapeIntersectsBuffer(geometry, p) ==
    LET dx == AxisGap(geometry.xmin, geometry.xmax, p.x)
        dy == AxisGap(geometry.ymin, geometry.ymax, p.y)
    IN dx * dx + dy * dy <= BufferRadius * BufferRadius

\* Line 108: the match test.
MatchTest(geometry, p) == ShapeContains(geometry, p) \/ ShapeIntersectsBuffer(geometry, p)

\* A mutant of StampRecord: the stamps do not replace a key already present
\* (setdefault instead of assignment).
StampRecordSetDefault(properties, data_type, file_name) ==
    LET p1 == IF data_type = CHIRO
              THEN DictSet(properties, "enjeu_détaillé",
                           DictGet(properties, "t_enjeux", "Indéterminé"))
              ELSE properties
        p2 == IF "type_pna" \in DOMAIN p1 THEN p1 ELSE DictSet(p1, "type_pna", data_type)
    IN IF "fichier_source" \in DOMAIN p2 THEN p2 ELSE DictSet(p2, "fichier_source", file_name)

\* A mutant of StampRecord: the stake field is written whatever the type.
StampRecordStakeAlways(properties, data_type, file_name) ==
    LET p1 == DictSet(properties, "enjeu_détaillé",
                      DictGet(properties, "t_enjeux", "Indéterminé"))
    IN DictSet(DictSet(p1, "type_pna", data_type), "fichier_source", file_name)

\* Lines 110-116: the writes to the properties dict of a matched feature.
StampRecord(properties, data_type, file_name) ==
    LET p1 == IF data_type = CHIRO
              THEN DictSet(properties, "enjeu_détaillé",
                           DictGet(properties, "t_enjeux", "Indéterminé"))
              ELSE properties
    IN DictSet(DictSet(p1, "type_pna", data_type), "fichier_source", file_name)

\* Lines 103-120: the body of the feature loop.  raised: an exception reached
\* the handler of line 119 (shape() on a geometry it cannot interpret,
\* feature['properties'] on a feature without that key, .get or item
\* assignment on a null properties value).  appended: results.append ran.
\* properties: the feature's properties dict afterwards (the dict the record
\* in results refers to is this very dict).
EvalFeature(feature, data_type, file_name, p) ==
    LET same == [raised |-> FALSE, appended |-> FALSE, properties |-> feature.properties]
        fail == [raised |-> TRUE, appended |-> FALSE, properties |-> feature.properties]
    IN
    IF ~feature.geometry.valid THEN fail
    ELSE IF ~feature.hasProps THEN fail
    ELSE IF ~MatchTest(feature.geometry, p) THEN same
    ELSE IF ~feature.propsIsMap THEN fail
    ELSE [raised |-> FALSE, appended |-> TRUE,
          properties |-> StampRecord(feature.properties, data_type, file_name)]

\* A mutant of NextAfterError: the handler leaves the feature loop (break).
NextAfterErrorBreak(features, i) == Len(features) + 1

\* Lines 119-120: `except: continue` goes on with the next feature.
NextAfterError(features, i) == i + 1

\* Lines 102-120: the loop over the features of one dataset, from position i.
\* acc: [features: the features with their dicts as written so far,
\*       results: the records appended so far].
RECURSIVE ScanFeatures(_, _, _, _, _)
ScanFeatures(acc, i, data_type, file_name, p) ==
    IF i > Len(acc.features) THEN acc
    ELSE LET ev == EvalFeature(acc.features[i], data_type, file_name, p) IN
         IF ev.raised
         THEN ScanFeatures(acc, NextAfterError(acc.features, i), data_type, file_name, p)
         ELSE ScanFeatures(
                [features |-> [acc.features EXCEPT ![i].properties = ev.properties],
                 results |-> IF ev.appended THEN Append(acc.results, ev.properties)
                             ELSE acc.results],
                i + 1, data_type, file_name, p)

\* Lines 94-120: the loop over all_data_sources.items(), from position j.
\* aborted: `for feature in data_source['features']` raised because the value
\* is not iterable; the exception leaves both loops (handler of line 126).
RECURSIVE ScanSources(_, _, _)
ScanSources(acc, j, p) ==
    IF j > Len(acc.sources) THEN acc
    ELSE LET file_info == acc.sources[j] IN
         IF ~file_info.data.featuresIsList
         THEN [acc EXCEPT !.aborted = TRUE]
         ELSE LET r == ScanFeatures([features |-> file_info.data.features,
                                     results |-> acc.results],
                                    1, file_info.type, file_info.name, p)
              IN ScanSources([sources |-> [acc.sources EXCEPT ![j].data.features = r.features],
                              results |-> r.results,
                              aborted |-> FALSE],
                             j + 1, p)

NoResults == [isNone |-> TRUE, items |-> <<>>]

\* Lines 84-128: is_in_pna.  in_pna, results: the returned pair (results None
\* is isNone); sources: the datasets afterwards; error: st.error of line 127.
IsInPna(p, sources) ==
    LET r == ScanSources([sources |-> sources, results |-> <<>>, aborted |-> FALSE], 1, p)
        found == ~r.aborted /\ r.results # <<>>
    IN [in_pna |-> found,
        results |-> IF found THEN [isNone |-> FALSE, items |-> r.results] ELSE NoResults,
        sources |-> r.sources,
        error |-> r.aborted]

(***************************************************************************)
(* The inputs: file names, documents, query points.                        *)
(***************************************************************************)
Rect(x1, x2, y1, y2) == [valid |-> TRUE, xmin |-> x1, xmax |-> x2, ymin |-> y1, ymax |-> y2]
\* A geometry shape() cannot interpret.
BadGeometry == [valid |-> FALSE, xmin |-> 0, xmax |-> 0, ymin |-> 0, ymax |-> 0]

ZoneA == Rect(0, 4, 0, 4)
ZoneB == Rect(1, 6, 1, 3)
ZoneFar == Rect(20, 24, 20, 24)

\* (2,2): inside ZoneA and ZoneB.  (5,2): 1 m outside ZoneA, inside ZoneB.
\* (7,2): 3 m from ZoneA, 1 m outside ZoneB.  (5,5): about 1.41 m from the
\* corner of ZoneA, 2 m from ZoneB.
QueryPoints == {[x |-> 2, y |-> 2], [x |-> 5, y |-> 2], [x |-> 7, y |-> 2], [x |-> 5, y |-> 5]}

\* A feature with a properties object.
Feature(geometry, properties) ==
    [geometry |-> geometry, hasProps |-> TRUE, propsIsMap |-> TRUE, properties |-> properties]
\* A feature with "properties": null.
FeatureNullProps(geometry) ==
    [geometry |-> geometry, hasProps |-> TRUE, propsIsMap |-> FALSE, properties |-> <<>>]
\* A feature without the key "properties".
FeatureNoProps(geometry) ==
    [geometry |-> geometry, hasProps |-> FALSE, propsIsMap |-> FALSE, properties |-> <<>>]

Collection(features) ==
    [parses |-> TRUE, hasType |-> TRUE, hasFeatures |-> TRUE, featuresIsList |-> TRUE,
     features |-> features]

\* Bat zones: a feature whose geometry cannot be interpreted sits between two
\* valid ones; the last one has no t_enjeux.
DocBats == Collection(<<
    Feature(ZoneA, [c_insee |-> "34001", n_espece |-> "Petit rhinolophe", t_enjeux |-> "Fort"]),
    Feature(BadGeometry, [c_insee |-> "34002", n_espece |-> "Chauve-souris"]),
    Feature(ZoneB, [c_insee |-> "34003", n_espece |-> "Chauve-souris"]) >>)

\* Dragonfly zones whose second feature names a bat.
DocDragonflies == Collection(<<
    Feature(ZoneB, [c_insee |-> "11001", n_espece |-> "Libellule"]),
    Feature(ZoneFar, [c_insee |-> "11002", n_espece |-> "Chauve-souris"]) >>)

\* Properties that already use the names the query writes; a feature
\* without properties.
DocCollision == Collection(<<
    Feature(ZoneA, DictSet([c_insee |-> "81001", type_pna |-> "ancien type",
                            fichier_source |-> "ancien.shp", t_enjeux |-> "Moyen"],
                           "enjeu_détaillé", "ancien enjeu")),
    FeatureNoProps(ZoneA),
    Feature(ZoneB, [c_insee |-> "81003"]) >>)

\* A feature with "properties": null first, then an ordinary one.
DocNullProps == Collection(<<
    FeatureNullProps(ZoneB),
    Feature(ZoneA, [c_insee |-> "30002", n_espece |-> "Petit rhinolophe"]) >>)

\* No rule matches this content.
DocPlain == Collection(<<
    Feature(ZoneA, [c_insee |-> "48001", n_espece |-> "Petit rhinolophe"]),
    Feature(ZoneFar, [c_insee |-> "48002"]) >>)

DocShrike == Collection(<<
    Feature(ZoneFar, [c_insee |-> "66001", n_espece |-> "Pie-grièche à tête rousse"]),
    Feature(ZoneA, [c_insee |-> "66002", n_espece |-> "Pie-grieche meridionale"]) >>)

\* Ten features without a matching species, then a dragonfly at position 11.
FillerIds == <<"09001", "09002", "09003", "09004", "09005", "09006", "09007", "09008",
               "09009", "09010", "09011", "09012">>
Filler(i) ==
    Feature(ZoneFar, [c_insee |-> FillerIds[i], n_espece |-> "Petit rhinolophe"])
DocEleven == Collection(
    [i \in 1..ContentScanLimit |-> Filler(i)]
    \o << Feature(ZoneA, [c_insee |-> "09100", n_espece |-> "Libellule"]) >>)

\* The species is named in the singular.
DocOdonate == Collection(<<
    Feature(ZoneA, [c_insee |-> "12001", n_espece |-> "Odonate"]) >>)

DocEmpty == Collection(<< >>)
\* {"type": "FeatureCollection", "features": null}
DocFeaturesNull == [Collection(<< >>) EXCEPT !.featuresIsList = FALSE]
\* {"type": "FeatureCollection"}
DocNoFeatures == [Collection(<< >>) EXCEPT !.hasFeatures = FALSE, !.featuresIsList = FALSE]
\* {"features": []}
DocNoType == [Collection(<< >>) EXCEPT !.hasType = FALSE]
\* Not JSON.
DocUnparsable ==
    [parses |-> FALSE, hasType |-> FALSE, hasFeatures |-> FALSE, featuresIsList |-> FALSE,
     features |-> << >>]

FileNames == {"chiroptere_zones.geojson", "Chauve.json", "odonat.json", "libellule.json",
              "griseche.json", "griseche_merid.json", "griseche_rousse.json",
              "tete rousse.json", "grise.json", "zones.geojson", "b.geojson"}

Documents == {DocBats, DocDragonflies, DocCollision, DocNullProps, DocPlain, DocShrike,
              DocOdonate, DocEleven, DocEmpty, DocFeaturesNull, DocNoFeatures, DocNoType, DocUnparsable}

File(name, doc) == [name |-> name, doc |-> doc]

\* The files that are uploaded together with others.
SessionFiles == {File("chiroptere_zones.geojson", DocBats),
                 File("odonat.json", DocDragonflies),
                 File("zones.geojson", DocCollision),
                 File("zones.geojson", DocNoFeatures),
                 File("grise.json", DocNullProps),
                 File("b.geojson", DocFeaturesNull)}

RECURSIVE SeqsUpTo(_, _)
\* All sequences over S of length at most n.
SeqsUpTo(S, n) ==
    IF n = 0 THEN {<< >>}
    ELSE LET shorter == SeqsUpTo(S, n - 1) IN
         shorter \cup {Append(s, e) : s \in shorter, e \in S}

\* What the uploader may hold: any one file, or up to MaxFiles session files.
UploadChoices ==
    {<<File(n, d)>> : n \in FileNames, d \in Documents} \cup SeqsUpTo(SessionFiles, MaxFiles)

(***************************************************************************)
(* The script as a state machine.                                          *)
(***************************************************************************)
NoPoint == [x |-> 0, y |-> 0]

\* The first run of the script: the selectbox shows its first option, the
\* uploader is empty, all_data_sources = {} (line 151), the loading loop is
\* skipped (line 161) and the verification part is reached.
Init ==
    /\ pna_type = AUTO
    /\ uploaded_files = << >>
    /\ idx = 1
    /\ all_data_sources = << >>
    /\ messages = << >>
    /\ pc = "verify"
    /\ called = FALSE
    /\ point = NoPoint
    /\ in_pna = FALSE
    /\ results = NoResults
    /\ outcome = "none"
    /\ check = "none"
    /\ address = ""

\* The script starts again from the top with the widgets holding type and
\* files: all_data_sources = {} (line 151), nothing is shown yet.
StartRun(type, files) ==
    /\ pna_type' = type
    /\ uploaded_files' = files
    /\ idx' = 1
    /\ all_data_sources' = << >>
    /\ messages' = << >>
    /\ pc' = IF files = << >> THEN "verify" ELSE "load"
    /\ called' = FALSE
    /\ point' = NoPoint
    /\ in_pna' = FALSE
    /\ results' = NoResults
    /\ outcome' = "none"
    /\ check' = "none"
    /\ address' = ""

\* Lines 162-240: one iteration of `for uploaded_file in uploaded_files`.
LoadFile ==
    /\ pc = "load"
    /\ idx <= Len(uploaded_files)
    /\ LET file == uploaded_files[idx]
           o == LoadOutcome(file, pna_type)
       IN /\ all_data_sources' =
                IF o.stored
                THEN DictPut(all_data_sources,
                             [name |-> file.name, data |-> file.doc, type |-> o.type])
                ELSE all_data_sources
          /\ messages' =
                IF o.level = "none" THEN messages
                ELSE Append(messages, [level |-> o.level, text |-> o.text, file |-> file.name])
    /\ idx' = idx + 1
    /\ pc' = IF idx + 1 > Len(uploaded_files) THEN "verify" ELSE "load"
    /\ UNCHANGED <<pna_type, uploaded_files, called, point, in_pna, results, outcome,
                   check, address>>

\* The call of lines 335 / 465 and the branch on its result.
CallIsInPna(p) ==
    LET r == IsInPna(p, all_data_sources) IN
    /\ called' = TRUE
    /\ point' = p
    /\ in_pna' = r.in_pna
    /\ results' = r.results
    /\ all_data_sources' = r.sources
    /\ messages' = IF r.error
                   THEN Append(messages, [level |-> "error", text |-> "query_exception",
                                          file |-> ""])
                   ELSE messages
    /\ outcome' = IF r.in_pna THEN "in_zone" ELSE "not_in_zone"

\* No verification button was pressed in this run.
NoVerification ==
    /\ pc = "verify"
    /\ pc' = "done"
    /\ UNCHANGED <<pna_type, uploaded_files, idx, all_data_sources, messages,
                   called, point, in_pna, results, outcome, check, address>>

\* Line 316: "Vérifier l'adresse" pressed while the address field is empty:
\* `if check_button and address` is false, nothing is shown.
VerifyEmptyAddress ==
    /\ pc = "verify"
    /\ pc' = "done"
    /\ check' = "check_button"
    /\ address' = ""
    /\ UNCHANGED <<pna_type, uploaded_files, idx, all_data_sources, messages,
                   called, point, in_pna, results, outcome>>

\* A mutant of NoDataLoaded: the test for an empty collection never fires.
NoDataLoadedNever(sources) == FALSE

\* Lines 317, 450: `not all_data_sources`.
NoDataLoaded(sources) == Len(sources) = 0

\* Lines 316-404: "Vérifier l'adresse" pressed with a non-empty address.
VerifyAddress ==
    /\ pc = "verify"
    /\ pc' = "done"
    /\ check' = "check_button"
    /\ address' = "1 Place de la Mairie, 34000 Montpellier"
    /\ UNCHANGED <<pna_type, uploaded_files, idx>>
    /\ IF NoDataLoaded(all_data_sources)
       THEN /\ outcome' = "no_data"
            /\ UNCHANGED <<all_data_sources, messages, called, point, in_pna, results>>
       ELSE \/ \E p \in QueryPoints : CallIsInPna(p)      \* get_coordinates found the address
            \/ /\ outcome' = "geocode_failed"             \* get_coordinates returned None
               /\ UNCHANGED <<all_data_sources, messages, called, point, in_pna, results>>

\* Lines 449-532: "Vérifier les coordonnées" pressed.
VerifyCoordinates ==
    /\ pc = "verify"
    /\ pc' = "done"
    /\ check' = "check_coords"
    /\ UNCHANGED <<pna_type, uploaded_files, idx, address>>
    /\ IF NoDataLoaded(all_data_sources)
       THEN /\ outcome' = "no_data"
            /\ UNCHANGED <<all_data_sources, messages, called, point, in_pna, results>>
       ELSE \E p \in QueryPoints : CallIsInPna(p)

\* The user picks an option of the selectbox (or presses a button, which
\* keeps the option): the script runs again, the uploader keeps its files.
SelectType ==
    /\ pc = "done"
    /\ \E type \in PnaTypeOptions : StartRun(type, uploaded_files)

\* The user removes the files from the uploader.
ClearFiles ==
    /\ pc = "done"
    /\ uploaded_files # << >>
    /\ StartRun(pna_type, << >>)

\* The user drops files on the empty uploader.
UploadFiles ==
    /\ pc = "done"
    /\ uploaded_files = << >>
    /\ \E files \in UploadChoices \ {<< >>} : StartRun(pna_type, files)

Next ==
    \/ LoadFile
    \/ NoVerification
    \/ VerifyEmptyAddress
    \/ VerifyAddress
    \/ VerifyCoordinates
    \/ SelectType
    \/ ClearFiles
    \/ UploadFiles

Spec == Init /\ [][Next]_vars

(***************************************************************************)
(* Vocabulary of the properties.                                           *)
(***************************************************************************)
\* The step that evaluates is_in_pna: all_data_sources is the collection the
\* query is given, point', in_pna', results' are the point and what it returns.
QueryStep == ~called /\ called'

\* The positions <<j, i>> of the features of the datasets, in iteration order.
FeaturePositions(sources) ==
    UNION {{<<j, i>> : i \in DOMAIN sources[j].data.features} :
             j \in {j \in DOMAIN sources : sources[j].data.featuresIsList}}

FeatureAt(sources, q) == sources[q[1]].data.features[q[2]]

\* The feature has a properties object with a zone code.
HasCode(f) == f.hasProps /\ f.propsIsMap /\ "c_insee" \in DOMAIN f.properties

\* Record r is the record of the feature at position q: it bears the file name
\* of the feature's dataset and the feature's zone code.
RecordOf(sources, q, r) ==
    /\ HasCode(FeatureAt(sources, q))
    /\ r["fichier_source"] = sources[q[1]].name
    /\ r["c_insee"] = FeatureAt(sources, q).properties["c_insee"]

\* The feature at q contributes a record to the result sequence res.
Contributes(sources, q, res) ==
    \E k \in DOMAIN res.items : RecordOf(sources, q, res.items[k])

\* The geometry of the feature can be interpreted and passes the test at p.
SatisfiesTest(f, p) == f.geometry.valid /\ MatchTest(f.geometry, p)

\* q1 comes before q2 in dataset order, then feature order.
Before(q1, q2) == q1[1] < q2[1] \/ (q1[1] = q2[1] /\ q1[2] < q2[2])

(***************************************************************************)
(* C1.  A feature whose geometry can be interpreted contributes a record   *)
(* to the results of is_in_pna if and only if its geometry contains the    *)
(* point or intersects the 1-metre buffer around it.                       *)
(***************************************************************************)
C1_Reported_Iff_Match ==
    [][QueryStep =>
        \A q \in FeaturePositions(all_data_sources) :
            LET f == FeatureAt(all_data_sources, q) IN
            f.geometry.valid =>
                (MatchTest(f.geometry, point') <=> Contributes(all_data_sources, q, results'))]_vars

(***************************************************************************)
(* C2.  The result sequence holds exactly one record per feature that      *)
(* satisfies the match test, in dataset order then feature order: as many  *)
(* records as matching features, every record the record of a matching     *)
(* feature, and the records ordered as their features are.                 *)
(***************************************************************************)
C2_One_Record_Per_Match_In_Order ==
    [][QueryStep =>
        LET items == results'.items
            matching == {q \in FeaturePositions(all_data_sources) :
                            SatisfiesTest(FeatureAt(all_data_sources, q), point')}
        IN /\ Len(items) = Cardinality(matching)
           /\ \A k \in DOMAIN items :
                \E q \in matching : RecordOf(all_data_sources, q, items[k])
           /\ \A k, l \in DOMAIN items :
                k < l => \E q1, q2 \in matching :
                            /\ RecordOf(all_data_sources, q1, items[k])
                            /\ RecordOf(all_data_sources, q2, items[l])
                            /\ Before(q1, q2)]_vars

(***************************************************************************)
(* C3.  A feature whose evaluation fails is skipped without aborting the   *)
(* query: what is_in_pna returns with such a feature present is what it    *)
(* returns on the same datasets with that feature removed.                 *)
(***************************************************************************)
\* The evaluation of the feature raises: its geometry cannot be turned into
\* a shape, it has no properties, or it matches and its properties are null.
EvaluationFails(f, p) ==
    \/ ~f.geometry.valid
    \/ ~f.hasProps
    \/ (MatchTest(f.geometry, p) /\ ~f.propsIsMap)

\* The sequence s without its element at position i.
RemoveAt(s, i) == SubSeq(s, 1, i - 1) \o SubSeq(s, i + 1, Len(s))

\* The datasets without the feature at position q.
WithoutFeature(sources, q) ==
    [sources EXCEPT ![q[1]].data.features = RemoveAt(@, q[2])]

C3_Corrupt_Feature_Skipped ==
    [][QueryStep =>
        \A q \in FeaturePositions(all_data_sources) :
            EvaluationFails(FeatureAt(all_data_sources, q), point') =>
                LET without == IsInPna(point', WithoutFeature(all_data_sources, q)) IN
                /\ in_pna' = without.in_pna
                /\ results' = without.results]_vars

\* A query has answered with the records of the valid features before and
\* after the feature of DocBats whose geometry cannot be interpreted.
C3_Witness ==
    /\ called
    /\ in_pna
    /\ \E j \in DOMAIN all_data_sources :
          LET fs == all_data_sources[j].data.features IN
          /\ Len(fs) = 3
          /\ ~fs[2].geometry.valid
          /\ \E k, l \in DOMAIN results.items :
                /\ k < l
                /\ results.items[k]["c_insee"] = fs[1].properties["c_insee"]
                /\ results.items[l]["c_insee"] = fs[3].properties["c_insee"]
                /\ results.items[k]["fichier_source"] = all_data_sources[j].name
                /\ results.items[l]["fichier_source"] = all_data_sources[j].name

C5_Stamped_With_Own_Dataset ==
    [][QueryStep =>
        \A k \in DOMAIN results'.items :
            LET r == results'.items[k] IN
            /\ {"type_pna", "fichier_source"} \subseteq DOMAIN r
            /\ \E q \in FeaturePositions(all_data_sources) :
                  /\ RecordOf(all_data_sources, q, r)
                  /\ r["type_pna"] = all_data_sources[q[1]].type
            /\ \A j \in DOMAIN all_data_sources :
                  all_data_sources[j].name = r["fichier_source"] =>
                      all_data_sources[j].type = r["type_pna"]]_vars

\* A query has returned records of two datasets of different types.
C5_Witness ==
    /\ called
    /\ \E k, l \in DOMAIN results.items :
          /\ results.items[k]["fichier_source"] # results.items[l]["fichier_source"]
          /\ results.items[k]["type_pna"] = CHIRO
          /\ results.items[l]["type_pna"] = ODONATES

(***************************************************************************)
(* C6.  Every record carries all the original properties of the matched    *)
(* feature, each key with its original value, besides the plan type and    *)
(* the file name: no original property is lost or replaced.                *)
(* (C6_Other_Properties_Kept, which holds, delimits the loss: the record   *)
(* has the feature's keys and the written ones, and only properties under  *)
(* a key the query writes change their value.)                             *)
(***************************************************************************)
C6_All_Original_Properties_Kept ==
    [][QueryStep =>
        \A k \in DOMAIN results'.items :
            LET r == results'.items[k] IN
            \E q \in FeaturePositions(all_data_sources) :
                /\ RecordOf(all_data_sources, q, r)
                /\ \A key \in DOMAIN FeatureAt(all_data_sources, q).properties :
                      /\ key \in DOMAIN r
                      /\ r[key] = FeatureAt(all_data_sources, q).properties[key]]_vars

\* The keys lines 112-116 assign for a dataset of this type.
WrittenKeys(data_type) ==
    {"type_pna", "fichier_source"} \cup
    (IF data_type = CHIRO THEN {"enjeu_détaillé"} ELSE {})

\* What holds instead of C6: only properties under a written key change.
C6_Other_Properties_Kept ==
    [][QueryStep =>
        \A k \in DOMAIN results'.items :
            LET r == results'.items[k] IN
            \E q \in FeaturePositions(all_data_sources) :
                LET original == FeatureAt(all_data_sources, q).properties
                    written == WrittenKeys(all_data_sources[q[1]].type)
                IN /\ RecordOf(all_data_sources, q, r)
                   /\ DOMAIN r = DOMAIN original \cup written
                   /\ \A key \in DOMAIN original \ written : r[key] = original[key]]_vars

(***************************************************************************)
(* C7.  Classification priority.  With a type other than automatic         *)
(* detection selected, every loaded dataset has exactly that type.  In     *)
(* automatic mode a dataset whose file name matches a filename rule has    *)
(* that rule's type whatever its content (so one whose name contains       *)
(* "chiroptere" is Chiroptères): the content decides only when no filename *)
(* rule matched.                                                           *)
(***************************************************************************)
C7_Priority_Forced_Name_Content ==
    \A j \in DOMAIN all_data_sources :
        LET e == all_data_sources[j] IN
        /\ pna_type # AUTO => e.type = pna_type
        /\ (pna_type = AUTO /\ FilenameType(e.name) # UNDETECTED) =>
              e.type = FilenameType(e.name)
        /\ (pna_type = AUTO /\ Has(Lower(Spell(e.name)), "chiroptere")) => e.type = CHIRO

\* In automatic mode a file named chiroptere_zones.geojson whose first feature
\* names a dragonfly has been loaded as Chiroptères.
C7_Witness ==
    /\ pna_type = AUTO
    /\ ~called
    /\ \E j \in DOMAIN all_data_sources :
          /\ all_data_sources[j].name = "chiroptere_zones.geojson"
          /\ all_data_sources[j].data = DocDragonflies
          /\ all_data_sources[j].type = CHIRO

(***************************************************************************)
(* C8.  In automatic mode a well-formed file whose name contains          *)
(* "griseche" and "merid" is classified Pie-grièche méridionale and one    *)
(* whose name contains "griseche" and "rousse" is classified Pie-grièche à *)
(* tête rousse (no rule of higher rank, "chiroptere", "chauve", "odonat",  *)
(* "libellule", being in the name).                                        *)
(***************************************************************************)
C8_Shrike_File_Names ==
    pna_type = AUTO =>
        \A j \in DOMAIN all_data_sources :
            LET e == all_data_sources[j]
                n == Lower(Spell(e.name))
            IN (e.data.featuresIsList
                /\ ~(Has(n, "chiroptere") \/ Has(n, "chauve") \/ Has(n, "odonat")
                     \/ Has(n, "libellule"))) =>
                  /\ (Has(n, "griseche") /\ Has(n, "merid")) => e.type = PG_MERID
                  /\ (Has(n, "griseche") /\ Has(n, "rousse")) => e.type = PG_ROUSSE

(***************************************************************************)
(* C9.  A document without the key type or features never becomes a        *)
(* dataset, and whenever loading a file reports an error for it, the file  *)
(* is absent from the dataset collection afterwards.                       *)
(***************************************************************************)
C9_Error_Means_Not_Loaded ==
    [][(pc = "load" /\ idx' = idx + 1) =>
        LET file == uploaded_files[idx] IN
        /\ \A j \in DOMAIN all_data_sources' :
              all_data_sources'[j].data.hasType /\ all_data_sources'[j].data.hasFeatures
        /\ (Len(messages') > Len(messages) /\ messages'[Len(messages')].level = "error") =>
              ~\E j \in DOMAIN all_data_sources' :
                  /\ all_data_sources'[j].name = file.name
                  /\ all_data_sources'[j].data = file.doc]_vars

(***************************************************************************)
(* C10.  In automatic mode a document with the keys type and features (a   *)
(* list of features) for which neither the file name nor the species name  *)
(* of its features matches a rule is loaded, without an error, with the    *)
(* type "Type inconnu"; "Type non détecté" is never a stored type.         *)
(***************************************************************************)
\* No feature the content heuristic may read names a species a rule matches.
NoContentRuleMatches(doc) ==
    \A i \in DOMAIN doc.features :
        LET f == doc.features[i] IN
        (i <= ContentScanLimit /\ f.hasProps /\ f.propsIsMap
            /\ "n_espece" \in DOMAIN f.properties) =>
                EspeceType(f.properties["n_espece"]) = UNDETECTED

C10_Unmatched_Loaded_As_Unknown ==
    [][(pc = "load" /\ idx' = idx + 1) =>
        LET file == uploaded_files[idx] IN
        /\ \A j \in DOMAIN all_data_sources' : all_data_sources'[j].type # UNDETECTED
        /\ ( /\ pna_type = AUTO
             /\ file.doc.parses /\ file.doc.hasType /\ file.doc.hasFeatures
             /\ file.doc.featuresIsList
             /\ FilenameType(file.name) = UNDETECTED
             /\ NoContentRuleMatches(file.doc) ) =>
                /\ \E j \in DOMAIN all_data_sources' :
                      /\ all_data_sources'[j].name = file.name
                      /\ all_data_sources'[j].type = UNKNOWN
                /\ Len(messages') = Len(messages) + 1
                /\ messages'[Len(messages')].level = "success"]_vars

(***************************************************************************)
(* C11.  is_in_pna never mutates the datasets it is given: after a query   *)
(* every dataset's type, feature list, and every feature's geometry and    *)
(* property mapping are what they were before the query.                   *)
(***************************************************************************)
C11_Datasets_Not_Mutated ==
    [][QueryStep => all_data_sources' = all_data_sources]_vars

(***************************************************************************)
(* C12.  is_in_pna is never invoked when no dataset is loaded.             *)
(* C12_Button_Without_Data_Is_Error is the claim as made: in both input    *)
(* modes, pressing the verification button while the dataset collection is *)
(* empty gives the error outcome and no call.  It fails for the address    *)
(* button pressed on an empty address field, which shows nothing.          *)
(* C12_No_Query_Without_Data is the amended claim: is_in_pna is only ever  *)
(* called with a non-empty collection, and pressing "Vérifier les          *)
(* coordonnées", or "Vérifier l'adresse" with an address entered, while    *)
(* the collection is empty gives the error outcome and no call.            *)
(***************************************************************************)
C12_Button_Without_Data_Is_Error ==
    (pc = "done" /\ check # "none" /\ Len(all_data_sources) = 0) =>
        (outcome = "no_data" /\ ~called)

C12_No_Query_Without_Data ==
    [][/\ QueryStep => Len(all_data_sources) > 0
       /\ (pc' = "done" /\ Len(all_data_sources') = 0
            /\ (check' = "check_coords" \/ (check' = "check_button" /\ address' # ""))) =>
               (outcome' = "no_data" /\ ~called')]_vars

\* A verification button was pressed with nothing loaded: the error is shown.
C12_Witness ==
    /\ pc = "done"
    /\ check = "check_coords"
    /\ uploaded_files # << >>
    /\ Len(all_data_sources) = 0
    /\ outcome = "no_data"
    /\ ~called

(***************************************************************************)
(* C13.  The query adds the stake field "enjeu_détaillé" to a record if    *)
(* and only if the owning dataset's type is Chiroptères: for such a        *)
(* dataset the field equals the feature's "t_enjeux" when present and      *)
(* "Indéterminé" when absent; for every other type the record has the      *)
(* field only if the feature already had it, with the feature's value.     *)
(***************************************************************************)
C13_Stake_Only_For_Chiropteres ==
    [][QueryStep =>
        \A k \in DOMAIN results'.items :
            LET r == results'.items[k] IN
            \E q \in FeaturePositions(all_data_sources) :
                LET original == FeatureAt(all_data_sources, q).properties IN
                /\ RecordOf(all_data_sources, q, r)
                /\ IF all_data_sources[q[1]].type = CHIRO
                   THEN /\ "enjeu_détaillé" \in DOMAIN r
                        /\ r["enjeu_détaillé"] =
                              IF "t_enjeux" \in DOMAIN original THEN original["t_enjeux"]
                              ELSE "Indéterminé"
                   ELSE /\ "enjeu_détaillé" \in DOMAIN r <=> "enjeu_détaillé" \in DOMAIN original
                        /\ "enjeu_détaillé" \in DOMAIN original =>
                              r["enjeu_détaillé"] = original["enjeu_détaillé"]]_vars

\* One query has returned a bat record with the stake of its feature, a bat
\* record with the default stake, and a dragonfly record without the field.
C13_Witness ==
    /\ called
    /\ \E k, l, n \in DOMAIN results.items :
          /\ results.items[k]["type_pna"] = CHIRO
          /\ "t_enjeux" \in DOMAIN results.items[k]
          /\ results.items[k]["enjeu_détaillé"] = results.items[k]["t_enjeux"]
          /\ results.items[l]["type_pna"] = CHIRO
          /\ "t_enjeux" \notin DOMAIN results.items[l]
          /\ results.items[l]["enjeu_détaillé"] = "Indéterminé"
          /\ results.items[n]["type_pna"] = ODONATES
          /\ "enjeu_détaillé" \notin DOMAIN results.items[n]

(***************************************************************************)
(* C14.  The content heuristic (automatic mode, no filename rule matched)  *)
(* reads "n_espece" of at most the first 10 features, in order, and stops  *)
(* at the first value a rule matches: a dataset classified by its content  *)
(* has the type of the earliest matching feature among its first 10, and   *)
(* "Type inconnu" when none of them matches, whatever the features after   *)
(* the earliest match and the features at position 11 or beyond say.       *)
(***************************************************************************)
\* The positions, among the first 10, of the features whose species name
\* matches a content rule.
MatchingAmongFirstTen(features) ==
    {i \in DOMAIN features :
        /\ i <= 10
        /\ features[i].hasProps /\ features[i].propsIsMap
        /\ "n_espece" \in DOMAIN features[i].properties
        /\ EspeceType(features[i].properties["n_espece"]) # UNDETECTED}

C14_Earliest_Of_First_Ten ==
    pna_type = AUTO =>
        \A j \in DOMAIN all_data_sources :
            LET e == all_data_sources[j]
                hits == MatchingAmongFirstTen(e.data.features)
            IN (FilenameType(e.name) = UNDETECTED /\ e.data.featuresIsList) =>
                  IF hits = {} THEN e.type = UNKNOWN
                  ELSE LET first == CHOOSE i \in hits : \A i2 \in hits : i <= i2 IN
                       e.type = EspeceType(e.data.features[first].properties["n_espece"])

\* In automatic mode a file whose only matching species name is at position
\* 11 has been loaded as "Type inconnu".
C14_Witness ==
    /\ pna_type = AUTO
    /\ \E j \in DOMAIN all_data_sources :
          LET e == all_data_sources[j] IN
          /\ FilenameType(e.name) = UNDETECTED
          /\ e.data.featuresIsList
          /\ Len(e.data.features) = 11
          /\ EspeceType(e.data.features[11].properties["n_espece"]) = ODONATES
          /\ e.type = UNKNOWN

(***************************************************************************)
(* C15.  The content heuristic applies the same keyword rules as the       *)
(* filename heuristic: a species name containing a keyword combination     *)
(* that the filename table maps to a plan type is classified to that same  *)
(* type.  (Stated on a dataset classified by the species name of its       *)
(* first feature.)                                                         *)
(***************************************************************************)
C15_Content_Rules_Same_As_Filename_Rules ==
    pna_type = AUTO =>
        \A j \in DOMAIN all_data_sources :
            LET e == all_data_sources[j]
                fs == e.data.features
            IN ( /\ FilenameType(e.name) = UNDETECTED
                 /\ e.data.featuresIsList
                 /\ Len(fs) >= 1
                 /\ fs[1].hasProps /\ fs[1].propsIsMap
                 /\ "n_espece" \in DOMAIN fs[1].properties
                 /\ FilenameType(fs[1].properties["n_espece"]) # UNDETECTED ) =>
                    e.type = FilenameType(fs[1].properties["n_espece"])
====
